---------------------------- MODULE Spec2Model ----------------------------
(* A run of phylocompare.py: the __main__ block applies the metric        *)
(* defaults, main() validates the rooting configuration, imports the two  *)
(* trees, calls compare_trees and writes the result file.                 *)
(* The tree library (TheiaPhylo: import_tree, tree_distance, RootError)   *)
(* is not part of the source at hand; its calls are modelled by their     *)
(* possible outcomes (a value or a raised error).                         *)
EXTENDS Integers, Sequences, FiniteSets, TLC

\* ------------------------------------------------------------------ bounds
MaxLen == 3     \* longest --outgroup option string that is enumerated
MaxDist == 1    \* largest distance the tree library returns

\* ------------------------------------------------------- values and strings
\* Python None / an unbound local is the empty tuple, a bound value v is <<v>>
None == <<>>
Some(v) == <<v>>

\* characters an --outgroup string is made of: a label character and the comma
Chars == {"a", ","}

RECURSIVE StringsOfLen(_)
StringsOfLen(n) ==
    IF n = 0 THEN {<<>>}
    ELSE {<<c>> \o s : c \in Chars, s \in StringsOfLen(n - 1)}

Strings == UNION {StringsOfLen(n) : n \in 0..MaxLen}

\* argparse: --outgroup has no default, so it is None or the given string
OutgroupOpts == {None} \cup {Some(s) : s \in Strings}

\* Python truthiness of args.outgroup: None and "" are false
Truthy(o) == o # None /\ o[1] # <<>>

\* str.split(","): the pieces between the commas, empty pieces kept
RECURSIVE split(_)
split(s) ==
    IF \A i \in 1..Len(s) : s[i] # ","
    THEN <<s>>
    ELSE LET k == CHOOSE i \in 1..Len(s) :
                      s[i] = "," /\ \A j \in 1..(i - 1) : s[j] # ","
         IN <<SubSeq(s, 1, k - 1)>> \o split(SubSeq(s, k + 1, Len(s)))

\* f"{x}": None is formatted as the text None, a number as its decimal digits
Format(x) == IF x = None THEN "None" ELSE ToString(x[1])

\* --------------------------------------------------------------- messages
NoErr == ""
ErrBoth == "ValueError: cannot root trees at midpoint and with outgroup simultaneously"
ErrUnrootedAndRooting == "ValueError: unrooted and rooting options simultaneously specified"
ErrMultiOutgroup == "RootError: multiple outgroups not supported"
ErrNoRooting == "ValueError: no rooting method provided"
ErrImport == "import_tree failed"
ErrDistance == "tree_distance failed"

Methods == {"rooted_robinson_foulds", "matching_cluster",
            "lin_rajan_moret", "unrooted_robinson_foulds"}

VARIABLES
    cli,        \* the namespace parse_args returned (never changed afterwards)
    args,       \* the namespace as main sees it (metric defaults applied)
    pc,         \* position of the run
    rooted,     \* main's local `rooted` (None while unbound)
    outgroup,   \* main's local `outgroup`
    imports,    \* the import_tree calls made so far, in order
    calls,      \* the tree_distance calls made so far, with their results
    tree_res,   \* main's local `tree_res` (<<>> while unbound)
    file,       \* lines of the result file (<<>> while not written)
    err,        \* the exception that ended the run (NoErr if none)
    exitcode    \* exit status of the process (None while running)

vars == <<cli, args, pc, rooted, outgroup, imports, calls, tree_res, file,
          err, exitcode>>

Namespaces ==
    [outgroup : OutgroupOpts, midpoint : BOOLEAN, unrooted : BOOLEAN,
     matching_cluster : BOOLEAN, robinson_foulds : BOOLEAN,
     lin_rajan_moret : BOOLEAN, tree1 : {"tree1"}, tree2 : {"tree2"}]

Init ==
    /\ cli \in Namespaces
    /\ args = cli
    /\ pc = "defaults"
    /\ rooted = None
    /\ outgroup = <<>>
    /\ imports = <<>>
    /\ calls = <<>>
    /\ tree_res = <<>>
    /\ file = <<>>
    /\ err = NoErr
    /\ exitcode = None

\* ------------------------------------------------------- __main__ defaults
NoMetricFlag_Or(a) ==
    ~a.matching_cluster \/ ~a.robinson_foulds \/ ~a.lin_rajan_moret

\* the condition of "run all comparisons by default"
NoMetricFlag(a) ==
    ~a.matching_cluster /\ ~a.robinson_foulds /\ ~a.lin_rajan_moret

ApplyDefaults ==
    /\ pc = "defaults"
    /\ args' = IF NoMetricFlag(args)
               THEN [args EXCEPT !.matching_cluster = TRUE,
                                 !.robinson_foulds = TRUE,
                                 !.lin_rajan_moret = TRUE]
               ELSE args
    /\ pc' = "main"
    /\ UNCHANGED <<cli, rooted, outgroup, imports, calls, tree_res, file,
                   err, exitcode>>

\* ------------------------------------------------ main: the order of steps
NextStep_SkipImport(s) ==
    CASE s = "main" -> "import1"
      [] s = "import1" -> "compare"
      [] s = "import2" -> "compare"
      [] s = "compare" -> "output"
      [] s = "output" -> "exit"

\* the statements of main (and the sys.exit after it) in program order
NextStep(s) ==
    CASE s = "main" -> "import1"
      [] s = "import1" -> "import2"
      [] s = "import2" -> "compare"
      [] s = "compare" -> "output"
      [] s = "output" -> "exit"

\* an exception is caught nowhere: it ends the run with a non-zero status
Raise(e) ==
    /\ err' = e
    /\ pc' = "failed"
    /\ exitcode' = Some(1)

\* ------------------------------------------------- main: rooting selection
BothRootings_Mutant(a) == Truthy(a.outgroup) /\ a.midpoint /\ a.unrooted

\* `if args.outgroup and args.midpoint`
BothRootings(a) == Truthy(a.outgroup) /\ a.midpoint

\* `elif args.outgroup or args.midpoint`
AnyRooting(a) == Truthy(a.outgroup) \/ a.midpoint

TooManyOutgroups_Mutant(og) == Len(og) > 2

\* `if len(outgroup) > 1`
TooManyOutgroups(og) == Len(og) > 1

NoRooting_Mutant(a) == a.unrooted

\* `elif not args.unrooted`
NoRooting(a) == ~a.unrooted

RootedValue_Mutant(a) == TRUE

\* the value `rooted` is bound to when no error is raised
RootedValue(a) == AnyRooting(a)

\* the value of `outgroup` after the if-chain
OutgroupList(a) == IF Truthy(a.outgroup) THEN split(a.outgroup[1]) ELSE <<>>

\* the exception the if-chain raises (NoErr if none)
RootingError(a) ==
    IF BothRootings(a) THEN ErrBoth
    ELSE IF AnyRooting(a)
         THEN IF a.unrooted THEN ErrUnrootedAndRooting
              ELSE IF Truthy(a.outgroup) /\ TooManyOutgroups(OutgroupList(a))
                   THEN ErrMultiOutgroup
                   ELSE NoErr
         ELSE IF NoRooting(a) THEN ErrNoRooting
              ELSE NoErr

SelectRooting ==
    /\ pc = "main"
    /\ LET e == RootingError(args) IN
       IF e # NoErr
       THEN /\ Raise(e)
            \* `outgroup` is bound to the split list when RootError is raised
            /\ outgroup' = IF e = ErrMultiOutgroup THEN OutgroupList(args)
                           ELSE outgroup
            /\ rooted' = IF e = ErrMultiOutgroup THEN Some(TRUE) ELSE rooted
       ELSE /\ rooted' = Some(RootedValue(args))
            /\ outgroup' = OutgroupList(args)
            /\ pc' = NextStep(pc)
            /\ UNCHANGED <<err, exitcode>>
    /\ UNCHANGED <<cli, args, imports, calls, tree_res, file>>

\* ------------------------------------------------------ main: tree import
\* a call of import_tree, as main makes it
ImportCall(path) == [path |-> path, outgroup |-> outgroup,
                     midpoint |-> args.midpoint]

\* import_tree returns a tree or raises (unreadable file, unknown label)
ImportOutcomes == {"tree", "raise"}

ImportTree(at, path) ==
    /\ pc = at
    /\ imports' = Append(imports, ImportCall(path))
    /\ \E o \in ImportOutcomes :
          IF o = "raise"
          THEN Raise(ErrImport)
          ELSE /\ pc' = NextStep(pc)
               /\ UNCHANGED <<err, exitcode>>
    /\ UNCHANGED <<cli, args, rooted, outgroup, calls, tree_res, file>>

Import1 == ImportTree("import1", args.tree1)

Import2 == ImportTree("import2", args.tree2)

\* ---------------------------------------------------------- compare_trees
\* the tree_distance calls compare_trees makes, in program order
MethodsCalled(mc, rf, lrm, isRooted) ==
    IF isRooted
    THEN (IF rf THEN <<"rooted_robinson_foulds">> ELSE <<>>)
         \o (IF mc THEN <<"matching_cluster">> ELSE <<>>)
    ELSE (IF lrm THEN <<"lin_rajan_moret">> ELSE <<>>)
         \o (IF rf THEN <<"unrooted_robinson_foulds">> ELSE <<>>)

\* the locals of compare_trees at its return; d[m] is what tree_distance
\* returns for method m
rf_dist(d, rf, isRooted) ==
    IF ~rf THEN None
    ELSE IF isRooted THEN Some(d["rooted_robinson_foulds"])
         ELSE Some(d["unrooted_robinson_foulds"])

mc_dist_Mutant(d, mc, isRooted) ==
    IF mc THEN Some(d["matching_cluster"]) ELSE None

mc_dist(d, mc, isRooted) ==
    IF isRooted /\ mc THEN Some(d["matching_cluster"]) ELSE None

lrm_dist(d, lrm, isRooted) ==
    IF ~isRooted /\ lrm THEN Some(d["lin_rajan_moret"]) ELSE None

\* `return mc_dist, rf_dist, lrm_dist`
compare_trees(d, mc, rf, lrm, isRooted) ==
    <<mc_dist(d, mc, isRooted), rf_dist(d, rf, isRooted),
      lrm_dist(d, lrm, isRooted)>>

\* the metric each position of the returned tuple holds
McOf(res) == res[1]
RfOf(res) == res[2]
LrmOf(res) == res[3]

\* the log of the first k calls of ms: each returns d[method], except that
\* the last one raises when `raises` holds (its value is then None)
CallLog(d, ms, k, raises) ==
    [i \in 1..k |-> [method |-> ms[i],
                     value |-> IF raises /\ i = k THEN None
                               ELSE Some(d[ms[i]])]]

Compare ==
    /\ pc = "compare"
    /\ LET ms == MethodsCalled(args.matching_cluster, args.robinson_foulds,
                               args.lin_rajan_moret, rooted[1])
       IN \E d \in [Methods -> 0..MaxDist] :
          \/ /\ tree_res' = compare_trees(d, args.matching_cluster,
                                          args.robinson_foulds,
                                          args.lin_rajan_moret, rooted[1])
             /\ calls' = CallLog(d, ms, Len(ms), FALSE)
             /\ pc' = NextStep(pc)
             /\ UNCHANGED <<err, exitcode>>
          \/ \* a tree_distance call raises (e.g. different leaf sets)
             \E k \in 1..Len(ms) :
                /\ calls' = CallLog(d, ms, k, TRUE)
                /\ Raise(ErrDistance)
                /\ UNCHANGED tree_res
    /\ UNCHANGED <<cli, args, rooted, outgroup, imports, file>>

\* --------------------------------------------------------- output_results
Header == <<"#robinson_foulds_distance", "matching_cluster_distance",
            "lin-rajan-moret_distance">>

\* the two lines written, each as its tab-separated fields
output_results(res) ==
    <<Header, <<Format(res[1]), Format(res[2]), Format(res[3])>>>>

Output ==
    /\ pc = "output"
    /\ file' = output_results(tree_res)
    /\ pc' = NextStep(pc)
    /\ UNCHANGED <<cli, args, rooted, outgroup, imports, calls, tree_res,
                   err, exitcode>>

\* sys.exit(0)
Exit ==
    /\ pc = "exit"
    /\ pc' = "done"
    /\ exitcode' = Some(0)
    /\ UNCHANGED <<cli, args, rooted, outgroup, imports, calls, tree_res,
                   file, err>>

Next ==
    \/ ApplyDefaults
    \/ SelectRooting
    \/ Import1
    \/ Import2
    \/ Compare
    \/ Output
    \/ Exit

Spec == Init /\ [][Next]_vars

TypeOK ==
    /\ cli \in Namespaces
    /\ args \in Namespaces
    /\ pc \in {"defaults", "main", "import1", "import2", "compare", "output",
               "exit", "done", "failed"}
    /\ rooted \in {None, Some(TRUE), Some(FALSE)}
    /\ err \in {NoErr, ErrBoth, ErrUnrootedAndRooting, ErrMultiOutgroup,
                ErrNoRooting, ErrImport, ErrDistance}
    /\ exitcode \in {None, Some(0), Some(1)}
    /\ Len(tree_res) \in {0, 3}
    /\ Len(file) \in {0, 2}
    /\ Len(imports) \in 0..2
\* ------------------------------------------------------ vocabulary of claims
\* the rooting configuration has been examined (accepted or rejected)
Examined == pc \notin {"defaults", "main"}

OutgroupSet(a) == Truthy(a.outgroup)

ConflictErrors == {ErrBoth, ErrUnrootedAndRooting}

ConfigErrors == ConflictErrors \cup {ErrMultiOutgroup, ErrNoRooting}

NothingStarted ==
    imports = <<>> /\ calls = <<>> /\ tree_res = <<>> /\ file = <<>>

\* the header column (1..3) that names the metric a method computes
Column(m) ==
    CASE m \in {"rooted_robinson_foulds", "unrooted_robinson_foulds"} -> 1
      [] m = "matching_cluster" -> 2
      [] m = "lin_rajan_moret" -> 3

MethodsLogged == {calls[i].method : i \in 1..Len(calls)}

FlaggedSet(a) ==
    (IF a.robinson_foulds THEN {1} ELSE {})
    \cup (IF a.matching_cluster THEN {2} ELSE {})
    \cup (IF a.lin_rajan_moret THEN {3} ELSE {})

\* C1: the tuple compare_trees returns and the data line output_results
\* writes are ordered (RF, MC, LRM): every distance the library returned
\* stands at the position, and under the header column, of its own metric.
C1_ResultOrderedRfMcLrm ==
    /\ tree_res # <<>> =>
          \A i \in 1..Len(calls) :
             tree_res[Column(calls[i].method)] = calls[i].value
    /\ file # <<>> =>
          /\ file[1] = Header
          /\ \A i \in 1..Len(calls) :
                file[2][Column(calls[i].method)] = ToString(calls[i].value[1])

\* C2: once compare_trees has returned, a metric is present in its result
\* iff it was requested and fits the rootedness: RF iff requested, MC iff
\* requested and rooted, LRM iff requested and unrooted; and only the
\* methods of the chosen rootedness were evaluated.
C2_PresentIffRequestedAndCompatible ==
    tree_res # <<>> =>
       /\ (RfOf(tree_res) # None) <=> args.robinson_foulds
       /\ (McOf(tree_res) # None) <=> (args.matching_cluster /\ rooted[1])
       /\ (LrmOf(tree_res) # None) <=> (args.lin_rajan_moret /\ ~rooted[1])
       /\ rooted[1] =>
             MethodsLogged \subseteq {"rooted_robinson_foulds", "matching_cluster"}
       /\ ~rooted[1] =>
             MethodsLogged \subseteq {"unrooted_robinson_foulds", "lin_rajan_moret"}

C2_Witness ==
    /\ tree_res # <<>>
    /\ rooted = Some(FALSE)
    /\ cli.matching_cluster /\ cli.robinson_foulds /\ ~cli.lin_rajan_moret
    /\ McOf(tree_res) = None /\ RfOf(tree_res) # None

\* more than one of the rooting selectors outgroup, midpoint, unrooted is set
MultipleSelectors(a) ==
    \/ OutgroupSet(a) /\ a.midpoint
    \/ a.unrooted /\ (OutgroupSet(a) \/ a.midpoint)

\* C3: a run that sets more than one rooting selector imports, compares and
\* writes nothing, and once its configuration has been examined it has
\* failed with one of the two conflicting-rooting-modes errors.
C3_ConflictingSelectorsRejected ==
    MultipleSelectors(cli) =>
       /\ NothingStarted
       /\ Examined => pc = "failed" /\ err \in ConflictErrors

C3_Witness ==
    /\ OutgroupSet(cli) /\ cli.midpoint /\ ~cli.unrooted
    /\ pc = "failed" /\ err = ErrBoth

\* the outgroup option lists two or more comma-separated labels
MultipleLabels(a) == OutgroupSet(a) /\ Len(split(a.outgroup[1])) >= 2

\* C4 as stated: a run whose outgroup option lists two or more (non-empty)
\* labels fails with the multiple-outgroups RootError whatever the other
\* options are, and imports no tree.
C4_Original_MultiOutgroupAlwaysRootError ==
    (MultipleLabels(cli) /\ \A i \in 1..Len(split(cli.outgroup[1])) :
                               split(cli.outgroup[1])[i] # <<>>) =>
       /\ imports = <<>>
       /\ Examined => pc = "failed" /\ err = ErrMultiOutgroup

\* C4 amended: a run whose outgroup option lists two or more labels imports
\* no tree and fails: with the multiple-outgroups RootError when neither
\* midpoint nor unrooted is set, with a conflicting-rooting-modes error
\* otherwise.
C4_MultiOutgroupRejected ==
    MultipleLabels(cli) =>
       /\ NothingStarted
       /\ Examined =>
             /\ pc = "failed"
             /\ err = IF cli.midpoint THEN ErrBoth
                      ELSE IF cli.unrooted THEN ErrUnrootedAndRooting
                      ELSE ErrMultiOutgroup

C4_Witness ==
    /\ MultipleLabels(cli) /\ ~cli.midpoint /\ ~cli.unrooted
    /\ Len(outgroup) = 2 /\ outgroup[1] # <<>> /\ outgroup[2] # <<>>
    /\ pc = "failed" /\ err = ErrMultiOutgroup

\* C5: with no outgroup, no midpoint and no unrooted flag the run fails with
\* the no-rooting-method error before anything is imported; with only the
\* unrooted flag the configuration is accepted and the comparison is the
\* unrooted one.
C5_RootingMandatoryUnlessUnrooted ==
    (~OutgroupSet(cli) /\ ~cli.midpoint) =>
       /\ ~cli.unrooted =>
             /\ NothingStarted
             /\ Examined => pc = "failed" /\ err = ErrNoRooting
       /\ cli.unrooted =>
             /\ err \notin ConfigErrors
             /\ Examined => rooted = Some(FALSE)
             /\ MethodsLogged \subseteq {"unrooted_robinson_foulds", "lin_rajan_moret"}
             /\ tree_res # <<>> => McOf(tree_res) = None

C5_Witness ==
    /\ ~OutgroupSet(cli) /\ ~cli.midpoint /\ cli.unrooted
    /\ pc = "done"
    /\ MethodsLogged = {"unrooted_robinson_foulds", "lin_rajan_moret"}

\* a metric flag was passed that does not fit the rootedness that was chosen
IncompatibleRequest(a) ==
    \/ a.matching_cluster /\ a.unrooted
    \/ a.lin_rajan_moret /\ (OutgroupSet(a) \/ a.midpoint)

\* C6: a run that explicitly requests MC for an unrooted comparison, or LRM
\* for a rooted one, is rejected: it evaluates no metric and never gets past
\* compare_trees.
C6_IncompatibleMetricRejected ==
    IncompatibleRequest(cli) =>
       /\ calls = <<>>
       /\ pc \notin {"output", "exit", "done"}

\* C7: every absent metric of the result is written as an empty field.
C7_AbsentIsEmptyField ==
    file # <<>> =>
       \A i \in 1..3 : tree_res[i] = None => file[2][i] = ""

\* C8: the requested metrics are all three when no metric flag was passed
\* and exactly the flagged ones otherwise (the default is applied only when
\* no flag was passed), and only requested metrics are evaluated.
C8_DefaultAllOnlyWithoutFlags ==
    pc # "defaults" =>
       /\ FlaggedSet(args) = IF FlaggedSet(cli) = {} THEN {1, 2, 3}
                             ELSE FlaggedSet(cli)
       /\ (args # cli) <=> (FlaggedSet(cli) = {})
       /\ \A m \in MethodsLogged : Column(m) \in FlaggedSet(args)
       /\ FlaggedSet(cli) # {} => \A m \in MethodsLogged : Column(m) \in FlaggedSet(cli)

C8_Witness ==
    /\ FlaggedSet(cli) = {1}
    /\ pc = "done"
    /\ MethodsLogged = {"rooted_robinson_foulds"}
    /\ McOf(tree_res) = None

\* C9: trees are imported only after the configuration was accepted, tree1
\* first and tree2 second; compare_trees runs only after both imports
\* returned; the file is written only after compare_trees returned; a run
\* that raised an error has written no file and exits non-zero.
C9_ValidateImportCompareWrite ==
    /\ imports # <<>> => rooted # None /\ err \notin ConfigErrors
    /\ Len(imports) >= 1 => imports[1].path = "tree1"
    /\ Len(imports) >= 2 => imports[2].path = "tree2"
    /\ (calls # <<>> \/ tree_res # <<>>) =>
          Len(imports) = 2 /\ err # ErrImport
    /\ file # <<>> => tree_res # <<>>
    /\ err # NoErr => file = <<>> /\ pc = "failed" /\ exitcode = Some(1)
    /\ exitcode = Some(0) => file # <<>> /\ err = NoErr

C9_Witness ==
    /\ pc = "done"
    /\ Len(imports) = 2
    /\ calls # <<>>
    /\ file # <<>>

\* C10: every import is made under exactly one rooting mode (one non-empty
\* outgroup label, or midpoint, or unrooted), both imports get the same
\* rooting parameters, and once the configuration is accepted `rooted` is
\* true iff outgroup or midpoint was set.
C10_OneRootingModeAtImport ==
    /\ \A i \in 1..Len(imports) :
          /\ rooted # None
          /\ \/ /\ Len(imports[i].outgroup) = 1
                /\ imports[i].outgroup[1] # <<>>
                /\ ~imports[i].midpoint
                /\ rooted[1]
             \/ /\ imports[i].outgroup = <<>>
                /\ imports[i].midpoint
                /\ rooted[1]
             \/ /\ imports[i].outgroup = <<>>
                /\ ~imports[i].midpoint
                /\ ~rooted[1]
    /\ Len(imports) = 2 =>
          /\ imports[1].outgroup = imports[2].outgroup
          /\ imports[1].midpoint = imports[2].midpoint
    /\ pc \in {"import1", "import2", "compare", "output", "exit", "done"} =>
          rooted = Some(OutgroupSet(cli) \/ cli.midpoint)

C10_Witness ==
    /\ Len(imports) = 2
    /\ Len(imports[1].outgroup) = 1
    /\ rooted = Some(TRUE)
    /\ tree_res # <<>>

=============================================================================
